---- MODULE Spec2Model ----
(***************************************************************************)
(* The Pair-Setup and Pair-Verify handshake handlers of hap-rs            *)
(* (src/transport/http/handler/pair_setup.rs and pair_verify.rs) as state *)
(* machines.  Cryptographic values are symbolic terms: two terms are      *)
(* equal exactly when they were built from the same inputs, which is the  *)
(* property of SRP, HKDF, ChaCha20-Poly1305 and Ed25519 the handlers use. *)
(***************************************************************************)
EXTENDS Integers, FiniteSets, Sequences, TLC

(***************************************************************************)
(* Bounds of the model.                                                    *)
(***************************************************************************)
\* number of distinct values one draw of the random generator can give
NumRand == 1
\* the max_peers value of the configuration, when one is configured
PeerLimit == 1
\* device-paired events emitted before the exploration stops pairing
MaxEvents == 1
\* number of distinct secret scalars Pair-Verify's Start can draw
NumScalars == 2
\* the largest state code a request body carries in its State field
MaxStateCode == 7
\* Pair-Setup handlers active at once on one pairing store
NumHandlers == 3
\* Exchange steps each of those handlers is given
MaxRaceExchanges == 2

(***************************************************************************)
(* Program constants.                                                      *)
(***************************************************************************)
\* pair_setup.rs StepNumber
StartRes == 2
VerifyRes == 4
ExchangeRes == 6
\* pair_setup.rs handle_start: `unsuccessful_tries > 99`
TriesCeiling == 99
\* unsuccessful_tries is a u8
U8Modulus == 256
\* length of the Poly1305 tag split off the encrypted data
TagLen == 16

\* Option<T>: None is the empty sequence, Some(x) is <<x>>
None == <<>>
Some(x) == <<x>>
IsSome(o) == o # <<>>
Unwrap(o) == o[1]

(***************************************************************************)
(* Collaborators outside the handlers: identity, controllers, store.      *)
(***************************************************************************)
\* the accessory's setup PIN (Device.pin) and a password that is not it
Pin == "pin"
WrongPin == "wrong"
Passwords == {Pin, WrongPin}

\* controllers: controller c has pairing identifier c and long-term key c
Controllers == {1, 2}
\* an identifier that is not a UUID
BadId == 0
KeyOf(c) == c

\* what the store does in one step: nothing fails, or one call fails
StoreOk == "ok"
StoreFaults == {"load_device", "count_pairings", "save_pairing"}

\* tlv::Error kinds of errors converted from library and store errors
FromStoreError == "Store"
FromDecryptError == "Decryption"
FromUuidError == "MalformedId"
FromSrpAuthError == "Unknown"

(***************************************************************************)
(* Symbolic cryptography.                                                  *)
(***************************************************************************)
\* v = g^x, x = H(s | H(I ":" P))
get_password_verifier(pin, salt) == [pin |-> pin, salt |-> salt]
\* B = k*v + g^b
get_b_pub(b, verifier) == [b |-> b, v |-> verifier]
\* the controller's ephemeral public value; 0 stands for A = 0 (mod N)
ControllerA == 1
ZeroA == 0
\* SrpServer::new(..).get_key(): K from A, b and the verifier
srp_server_key(a_pub, b, verifier) == [A |-> a_pub, b |-> b, v |-> verifier]
\* the key a controller derives from its password and the Start reply
srp_client_key(a_pub, password, salt, b_pub) ==
    [A |-> a_pub, b |-> b_pub.b, v |-> get_password_verifier(password, salt)]
\* M = H(H(N) xor H(g), H(I), s, A, B, K)
client_proof(salt, a_pub, b_pub, key) ==
    [s |-> salt, A |-> a_pub, B |-> b_pub, K |-> key]
GarbageProof == [s |-> 0, A |-> ZeroA, B |-> get_b_pub(0, get_password_verifier(WrongPin, 0)),
                 K |-> srp_server_key(ZeroA, 0, get_password_verifier(WrongPin, 0))]
\* HKDF-SHA512 extract and expand
hkdf(secret, salt, info) == [secret |-> secret, salt |-> salt, info |-> info]
\* ed25519::verify(message, public_key, signature)
ed25519_verify(message, public_key, signature) ==
    /\ signature.signer = public_key
    /\ signature.msg = message
\* chacha20_poly1305_aead::decrypt succeeds
aead_decrypts(key, nonce, data) ==
    /\ data.key = key
    /\ data.nonce = nonce
    /\ data.tag_ok


(***************************************************************************)
(* State.                                                                  *)
(***************************************************************************)
VARIABLES
    \* PairSetup.session: Option<Session {salt, verifier, b, b_pub, shared_secret}>
    session,
    \* PairSetup.unsuccessful_tries: u8
    unsuccessful_tries,
    \* the pairing store: a set of Pairing {id, permissions, public_key}
    pairings,
    \* Config.max_peers: Option<usize>
    max_peers,
    \* number of Event::DevicePaired emitted
    events,
    \* what handle_start / handle_verify / handle_exchange returned last
    result,
    \* what PairSetup::handle returned last to the transport
    reply,
    \* TRUE once a step of the Pair-Setup handler has panicked
    aborted,
    \* progress of a conforming Start, Verify, Exchange run on a fresh handler
    happy,
    \* TRUE when a Verify step has succeeded since the last successful Start
    verified,
    \* the step of the last call of PairSetup::handle
    last_step,
    \* PairVerify.session: Option<Session {b_pub, a_pub, shared_secret, session_key}>
    pv_session,
    \* PairVerify.session_sender: Option<oneshot::Sender<tcp::Session>>
    session_sender,
    \* TRUE while the transport holds the receiving end of the oneshot channel
    receiver_alive,
    \* the tcp::Session values the receiving end has been given, in order
    handoffs,
    \* what handle_start / handle_finish of Pair-Verify returned last
    pv_result,
    \* what PairVerify::handle returned last to the transport
    pv_reply,
    \* TRUE once a step of the Pair-Verify handler has panicked
    pv_aborted,
    \* the last Pair-Verify request: its step and how the controller built it,
    \* and the scalar b drawn by the last Start that was answered Ok
    pv_last,
    \* the handler this connection's requests are routed to
    handler,
    \* the request body last given to parse, and what parse returned for it
    body,
    parsed,
    \* the Exchange steps of concurrently active Pair-Setup handlers that
    \* share the pairing store: per handler, where it is in handle_exchange
    racers

setup_vars == <<session, unsuccessful_tries, max_peers, events,
                result, reply, aborted, happy, verified, last_step>>
verify_vars == <<pv_session, session_sender, receiver_alive, handoffs,
                 pv_result, pv_reply, pv_aborted, pv_last>>
parse_vars == <<body, parsed>>
vars == <<setup_vars, verify_vars, pairings, handler, parse_vars, racers>>

(***************************************************************************)
(* Replies of handle.                                                      *)
(***************************************************************************)
NoReply == [kind |-> "none", state |-> 0, error |-> "None"]
OkReply(state) == [kind |-> "ok", state |-> state, error |-> "None"]
\* tlv::ErrorContainer::new(step, error)
ErrorContainer(step, error) == [kind |-> "error", state |-> step, error |-> error]
\* the step panicked: nothing is returned
Panicked == [kind |-> "panic", state |-> 0, error |-> "None"]

\* a Result of a step function: Ok(container with State(state)) or Err(error)
Ok(state) == [ok |-> TRUE, state |-> state, error |-> "None"]
Err(error) == [ok |-> FALSE, state |-> 0, error |-> error]
\* the step function panicked (slice index out of range)
Panic == [ok |-> FALSE, state |-> 0, error |-> "Panic"]
NoResult == [ok |-> FALSE, state |-> 0, error |-> "None"]

(***************************************************************************)
(* Pair-Setup: handle_start, handle_verify, verify_client_proof.           *)
(***************************************************************************)
\* Pairing::new(id, Permissions::Admin, ltpk)
Pairing(id, permissions, public_key) ==
    [id |-> id, permissions |-> permissions, public_key |-> public_key]

\* `handler.unsuccessful_tries > 99`
tries_exceeded(tries) == tries > TriesCeiling

\* Session built by handle_start from the random draw r (salt and b)
new_session(r) ==
    LET verifier == get_password_verifier(Pin, r)
    IN  [salt |-> r, verifier |-> verifier, b |-> r,
         b_pub |-> get_b_pub(r, verifier), shared_secret |-> None]

\* handle_start(handler, database): the Result and the handler's session after
setup_handle_start(sess, tries, fault, r) ==
    IF tries_exceeded(tries)
    THEN [result |-> Err("MaxTries"), session |-> sess]
    ELSE IF fault = "load_device"
    THEN [result |-> Err(FromStoreError), session |-> sess]
    ELSE [result |-> Ok(StartRes), session |-> Some(new_session(r))]

\* verify_client_proof: TRUE when a_proof equals the expected M
proof_matches(b_pub, a_pub, a_proof, salt, key) ==
    a_proof = client_proof(salt, a_pub, b_pub, key)

\* the session after handle_verify has computed the key from a_pub
store_shared_secret(s, key) == [s EXCEPT !.shared_secret = Some(key)]

\* handle_verify(handler, a_pub, a_proof)
setup_handle_verify(sess, a_pub, a_proof) ==
    IF IsSome(sess)
    THEN LET s == Unwrap(sess)
         IN  IF a_pub = ZeroA
             THEN [result |-> Err(FromSrpAuthError), session |-> sess]
             ELSE LET key == srp_server_key(a_pub, s.b, s.verifier)
                      s2 == store_shared_secret(s, key)
                  IN  IF proof_matches(s2.b_pub, a_pub, a_proof, s2.salt, key)
                      THEN [result |-> Ok(VerifyRes), session |-> Some(s2)]
                      ELSE [result |-> Err("Authentication"), session |-> Some(s2)]
    ELSE [result |-> Err("Unknown"), session |-> sess]


(***************************************************************************)
(* Pair-Setup: handle_exchange.                                            *)
(***************************************************************************)
\* the 32-byte keys handle_exchange derives from the shared secret
setup_encryption_key(shared_secret) ==
    hkdf(shared_secret, "Pair-Setup-Encrypt-Salt", "Pair-Setup-Encrypt-Info")
controller_sign_x(shared_secret) ==
    hkdf(shared_secret, "Pair-Setup-Controller-Sign-Salt", "Pair-Setup-Controller-Sign-Info")

\* device_info = device_x || device_pairing_id || device_ltpk
device_info(device_x, id, ltpk) == [x |-> device_x, id |-> id, ltpk |-> ltpk]

\* `data[..data.len() - 16]` is out of range
slice_panics(data) == data.len < TagLen

\* mutant of peers_exceeded: the pairing being added is not counted
peers_exceeded_off_by_one(count, limit) == count > limit

\* `count_pairings()? + 1 > max_peers`
peers_exceeded(count, limit) == count + 1 > limit

\* mutant of save_to: the record is written with the key field left zeroed
save_to_zero_key(pairing, store) ==
    {p \in store : p.id # pairing.id} \cup {[pairing EXCEPT !.public_key = 0]}

\* pairing.save_to(database): the record of that id is written
save_to(pairing, store) == {p \in store : p.id # pairing.id} \cup {pairing}

\* mutant of persist_and_reply: the event is emitted as soon as the pairing
\* is saved, before the accessory's identity is loaded for the reply
persist_and_reply_event_first(limit, store, ev, id, ltpk, fault) ==
    IF IsSome(limit) /\ fault = "count_pairings"
    THEN [result |-> Err(FromStoreError), pairings |-> store, events |-> ev]
    ELSE IF IsSome(limit) /\ peers_exceeded(Cardinality(store), Unwrap(limit))
    THEN [result |-> Err("MaxPeers"), pairings |-> store, events |-> ev]
    ELSE IF fault = "save_pairing"
    THEN [result |-> Err(FromStoreError), pairings |-> store, events |-> ev]
    ELSE LET saved == save_to(Pairing(id, "Admin", ltpk), store)
         IN  IF fault = "load_device"
             THEN [result |-> Err(FromStoreError), pairings |-> saved, events |-> ev + 1]
             ELSE [result |-> Ok(ExchangeRes), pairings |-> saved, events |-> ev + 1]

\* the part of handle_exchange after the signature check and the parsing of
\* the identifier: peer limit, save, accessory reply, event
persist_and_reply(limit, store, ev, id, ltpk, fault) ==
    IF IsSome(limit) /\ fault = "count_pairings"
    THEN [result |-> Err(FromStoreError), pairings |-> store, events |-> ev]
    ELSE IF IsSome(limit) /\ peers_exceeded(Cardinality(store), Unwrap(limit))
    THEN [result |-> Err("MaxPeers"), pairings |-> store, events |-> ev]
    ELSE IF fault = "save_pairing"
    THEN [result |-> Err(FromStoreError), pairings |-> store, events |-> ev]
    ELSE LET saved == save_to(Pairing(id, "Admin", ltpk), store)
         IN  IF fault = "load_device"
             THEN [result |-> Err(FromStoreError), pairings |-> saved, events |-> ev]
             ELSE [result |-> Ok(ExchangeRes), pairings |-> saved, events |-> ev + 1]

\* handle_exchange(handler, config, database, event_emitter, data)
setup_handle_exchange(sess, limit, store, ev, data, fault) ==
    LET unchanged(r) == [result |-> r, pairings |-> store, events |-> ev]
    IN
    IF ~IsSome(sess) THEN unchanged(Err("Unknown"))
    ELSE IF ~IsSome(Unwrap(sess).shared_secret) THEN unchanged(Err("Unknown"))
    ELSE LET shared_secret == Unwrap(Unwrap(sess).shared_secret)
             plain == data.plain
         IN  IF slice_panics(data) THEN unchanged(Panic)
             ELSE IF ~aead_decrypts(setup_encryption_key(shared_secret), "PS-Msg05", data)
             THEN unchanged(Err(FromDecryptError))
             ELSE IF ~({"Identifier", "PublicKey", "Signature"} \subseteq plain.fields)
             THEN unchanged(Err("Unknown"))
             ELSE IF ~ed25519_verify(
                        device_info(controller_sign_x(shared_secret), plain.id, plain.ltpk),
                        plain.ltpk, plain.signature)
             THEN unchanged(Err("Authentication"))
             ELSE IF plain.id = BadId THEN unchanged(Err(FromUuidError))
             ELSE persist_and_reply(limit, store, ev, plain.id, plain.ltpk, fault)

(***************************************************************************)
(* PairSetup::handle: the match arms around the step functions.            *)
(***************************************************************************)
\* `self.unsuccessful_tries += 1` on a u8: below 255 it adds one; at 255 a
\* build with overflow checks panics and a build without them wraps to 0
add_one(tries) ==
    IF tries + 1 < U8Modulus
    THEN {[tries |-> tries + 1, panics |-> FALSE]}
    ELSE {[tries |-> 0, panics |-> FALSE], [tries |-> tries, panics |-> TRUE]}

\* StepNumber::VerifyReq, and a mutant of verify_error_state: the error of a
\* Verify step tagged with the code of the request
VerifyReq == 3
verify_error_state_of_request == VerifyReq

\* the state code handle puts on the error of each step
start_error_state == StartRes
verify_error_state == VerifyRes
exchange_error_state == ExchangeRes

\* the outcomes of one match arm of handle: counter, reply, abort
handle_arm(res, tries, error_state) ==
    IF res.ok
    THEN {[tries |-> 0, reply |-> OkReply(res.state), aborted |-> FALSE]}
    ELSE IF res = Panic
    THEN {[tries |-> tries, reply |-> Panicked, aborted |-> TRUE]}
    ELSE {[tries |-> o.tries,
           reply |-> IF o.panics THEN Panicked ELSE ErrorContainer(error_state, res.error),
           aborted |-> o.panics] : o \in add_one(tries)}


(***************************************************************************)
(* The requests a controller sends to the Pair-Setup handler.              *)
(***************************************************************************)
AllFields == {"Identifier", "PublicKey", "Signature"}

\* what a controller knows of the handler's session: the salt and B of the
\* Start reply (arbitrary values when no Start has been answered)
SessionView(sess) ==
    IF IsSome(sess)
    THEN [salt |-> Unwrap(sess).salt, b_pub |-> Unwrap(sess).b_pub]
    ELSE [salt |-> 0, b_pub |-> get_b_pub(0, get_password_verifier(WrongPin, 0))]

\* K as a controller holding `password` computes it
ControllerKey(sess, password) ==
    srp_client_key(ControllerA, password, SessionView(sess).salt, SessionView(sess).b_pub)

\* M3 of a controller holding `password`
ControllerProof(sess, password) ==
    client_proof(SessionView(sess).salt, ControllerA, SessionView(sess).b_pub,
                 ControllerKey(sess, password))

\* M3 requests whose proof is not the one the handler expects
MismatchedVerifyRequests(sess) ==
    {[class |-> "wrong_password", a_pub |-> ControllerA,
      a_proof |-> ControllerProof(sess, WrongPin)],
     [class |-> "garbage_proof", a_pub |-> ControllerA, a_proof |-> GarbageProof]}

VerifyRequests(sess) ==
    {[class |-> "conforming", a_pub |-> ControllerA, a_proof |-> ControllerProof(sess, Pin)],
     [class |-> "zero_a", a_pub |-> ZeroA, a_proof |-> GarbageProof]}
    \cup MismatchedVerifyRequests(sess)

\* M5 of controller c holding `password`: its identifier, its long-term key
\* and a signature by the key `signer`, encrypted under its K
ControllerData(sess, password, id, c, signer) ==
    LET K == ControllerKey(sess, password)
    IN  [len |-> TagLen + 1,
         key |-> setup_encryption_key(K),
         nonce |-> "PS-Msg05",
         tag_ok |-> TRUE,
         plain |-> [fields |-> AllFields, id |-> id, ltpk |-> KeyOf(c),
                    signature |-> [signer |-> KeyOf(signer),
                                   msg |-> device_info(controller_sign_x(K), id, KeyOf(c))]]]

OtherController(c) == IF c = 1 THEN 2 ELSE 1

\* M5 of controller c holding the PIN, sent while the store does `fault`
ConformingExchange(sess, c, fault) ==
    [class |-> "conforming", id |-> c, fault |-> fault,
     data |-> ControllerData(sess, Pin, c, c, c)]

\* the M5 of controller 1 with one bit of its authentication tag flipped
BadTagExchange(sess) ==
    [class |-> "bad_tag", id |-> 1, fault |-> StoreOk,
     data |-> [ControllerData(sess, Pin, 1, 1, 1) EXCEPT !.tag_ok = FALSE]]

ExchangeRequests(sess) ==
    LET good == ControllerData(sess, Pin, 1, 1, 1)
    IN  {ConformingExchange(sess, c, StoreOk) : c \in Controllers}
        \cup
        {ConformingExchange(sess, 1, f) : f \in StoreFaults}
        \cup
        {[class |-> "wrong_password", id |-> 1, fault |-> StoreOk,
          data |-> ControllerData(sess, WrongPin, 1, 1, 1)],
         BadTagExchange(sess),
         [class |-> "short", id |-> 1, fault |-> StoreOk,
          data |-> [good EXCEPT !.len = TagLen - 1]],
         [class |-> "forged_signature", id |-> 1, fault |-> StoreOk,
          data |-> ControllerData(sess, Pin, 1, 1, OtherController(1))],
         [class |-> "bad_id", id |-> BadId, fault |-> StoreOk,
          data |-> ControllerData(sess, Pin, BadId, 1, 1)]}
        \cup
        {[class |-> "missing_field", id |-> 1, fault |-> StoreOk,
          data |-> [good EXCEPT !.plain.fields = AllFields \ {f}]] : f \in AllFields}

\* the peer limit is reached: N is configured and N pairings exist
LimitReached == IsSome(max_peers) /\ Cardinality(pairings) >= Unwrap(max_peers)

(***************************************************************************)
(* Pair-Verify: handle_start, handle_finish, handle.                       *)
(***************************************************************************)
\* pair_verify.rs StepNumber
PVStartRes == 2
FinishRes == 4

\* curve25519_base(b) and curve25519(b, a_pub)
curve25519_base(b) == [b |-> b]
curve25519(b, a_pub) == [b |-> b, A |-> a_pub]
\* the ECDH secret as the controller computes it from B
controller_ecdh(a_pub, b_pub) == [b |-> b_pub.b, A |-> a_pub]

verify_session_key(shared_secret) ==
    hkdf(shared_secret, "Pair-Verify-Encrypt-Salt", "Pair-Verify-Encrypt-Info")

\* handle_start(handler, database, a_pub): b is the random scalar
verify_handle_start(sess, a_pub, b, fault) ==
    LET b_pub == curve25519_base(b)
        shared_secret == curve25519(b, a_pub)
    IN  IF fault = "load_device"
        THEN [result |-> Err(FromStoreError), session |-> sess]
        ELSE [result |-> Ok(PVStartRes),
              session |-> Some([b_pub |-> b_pub, a_pub |-> a_pub,
                                shared_secret |-> shared_secret,
                                session_key |-> verify_session_key(shared_secret)])]

\* mutant of load_from: the lookup does not filter by the identifier
load_from_any_id(id, store) == store

\* Pairing::load_from(id, database)
load_from(id, store) == {p \in store : p.id = id}

\* device_info = a_pub || device_pairing_id || b_pub
verify_device_info(a_pub, id, b_pub) == [a_pub |-> a_pub, id |-> id, b_pub |-> b_pub]

\* mutant of tcp_session: the derived session key is handed off instead of
\* the raw ECDH secret
tcp_session_derived_key(controller_id, shared_secret) ==
    [controller_id |-> controller_id, shared_secret |-> verify_session_key(shared_secret)]

\* tcp::Session {controller_id, shared_secret}
tcp_session(controller_id, shared_secret) ==
    [controller_id |-> controller_id, shared_secret |-> shared_secret]

\* mutant of take_and_send: the sender is used without being taken
send_without_take(sender, alive, delivered, value) ==
    IF IsSome(sender)
    THEN [result |-> Ok(4), sender |-> sender,
          handoffs |-> IF alive THEN Append(delivered, value) ELSE delivered]
    ELSE [result |-> Err("Unknown"), sender |-> sender, handoffs |-> delivered]

\* `handler.session_sender.take()` then `sender.send(..)`, its result dropped:
\* the sender is gone, the value arrives when the receiving end still exists
take_and_send(sender, alive, delivered, value) ==
    IF IsSome(sender)
    THEN [result |-> Ok(FinishRes), sender |-> None,
          handoffs |-> IF alive THEN Append(delivered, value) ELSE delivered]
    ELSE [result |-> Err("Unknown"), sender |-> sender, handoffs |-> delivered]

\* mutant of finish_signature_ok: the signature is checked against the key
\* that made it, not against the stored one
finish_signature_any_key(s, pairing, plain) ==
    ed25519_verify(verify_device_info(s.a_pub, plain.id, s.b_pub),
                   plain.signature.signer, plain.signature)

\* `ed25519::verify(&device_info, &pairing.public_key, &device_signature)`
finish_signature_ok(s, pairing, plain) ==
    ed25519_verify(verify_device_info(s.a_pub, plain.id, s.b_pub),
                   pairing.public_key, plain.signature)

\* handle_finish(handler, database, data)
verify_handle_finish(sess, sender, alive, delivered, store, data, fault) ==
    LET unchanged(r) == [result |-> r, sender |-> sender, handoffs |-> delivered]
    IN
    IF ~IsSome(sess) THEN unchanged(Err("Unknown"))
    ELSE LET s == Unwrap(sess)
             plain == data.plain
         IN  IF slice_panics(data) THEN unchanged(Panic)
             ELSE IF ~aead_decrypts(s.session_key, "PV-Msg03", data)
             THEN unchanged(Err(FromDecryptError))
             ELSE IF ~({"Identifier", "Signature"} \subseteq plain.fields)
             THEN unchanged(Err("Unknown"))
             ELSE IF plain.id = BadId THEN unchanged(Err(FromUuidError))
             ELSE IF fault = "load_pairing" \/ load_from(plain.id, store) = {}
             THEN unchanged(Err(FromStoreError))
             ELSE LET pairing == CHOOSE p \in load_from(plain.id, store) : TRUE
                  IN  IF ~finish_signature_ok(s, pairing, plain)
                      THEN unchanged(Err("Authentication"))
                      ELSE take_and_send(sender, alive, delivered,
                                         tcp_session(plain.id, s.shared_secret))

\* the state code PairVerify::handle puts on the error of each step
pv_start_error_state == PVStartRes
finish_error_state == FinishRes

\* one match arm of PairVerify::handle
verify_handle_arm(res, error_state) ==
    IF res.ok THEN [reply |-> OkReply(res.state), aborted |-> FALSE]
    ELSE IF res = Panic THEN [reply |-> Panicked, aborted |-> TRUE]
    ELSE [reply |-> ErrorContainer(error_state, res.error), aborted |-> FALSE]

(***************************************************************************)
(* The requests a controller sends to the Pair-Verify handler.             *)
(***************************************************************************)
VerifySessionView(sess) ==
    IF IsSome(sess) THEN Unwrap(sess).b_pub ELSE curve25519_base(0)

\* M3 of Pair-Verify: identifier id, signed by the long-term key of `signer`
FinishData(sess, id, signer) ==
    LET b_pub == VerifySessionView(sess)
    IN  [len |-> TagLen + 1,
         key |-> verify_session_key(controller_ecdh(ControllerA, b_pub)),
         nonce |-> "PV-Msg03",
         tag_ok |-> TRUE,
         plain |-> [fields |-> {"Identifier", "Signature"}, id |-> id,
                    signature |-> [signer |-> KeyOf(signer),
                                   msg |-> verify_device_info(ControllerA, id, b_pub)]]]

\* M3 of controller c, signed with its own long-term key
ConformingFinish(sess, c, fault) ==
    [class |-> "conforming", id |-> c, fault |-> fault, data |-> FinishData(sess, c, c)]

\* M3 naming controller c, signed with the long-term key of another controller
OtherKeyFinish(sess, c) ==
    [class |-> "other_key", id |-> c, fault |-> StoreOk,
     data |-> FinishData(sess, c, OtherController(c))]

FinishRequests(sess) ==
    LET good == FinishData(sess, 1, 1)
    IN  {ConformingFinish(sess, c, f) : c \in Controllers, f \in {StoreOk, "load_pairing"}}
        \cup
        {OtherKeyFinish(sess, c) : c \in Controllers}
        \cup
        {[class |-> "bad_tag", id |-> 1, fault |-> StoreOk,
          data |-> [good EXCEPT !.tag_ok = FALSE]],
         [class |-> "short", id |-> 1, fault |-> StoreOk,
          data |-> [good EXCEPT !.len = TagLen - 1]],
         [class |-> "bad_id", id |-> BadId, fault |-> StoreOk,
          data |-> FinishData(sess, BadId, 1)]}
        \cup
        {[class |-> "missing_field", id |-> 1, fault |-> StoreOk,
          data |-> [good EXCEPT !.plain.fields = {"Identifier", "Signature"} \ {f}]]
            : f \in {"Identifier", "Signature"}}

\* the pairings Pair-Setup can have stored: Admin, each controller's own key
StoredPairings == {Pairing(c, "Admin", KeyOf(c)) : c \in Controllers}

(***************************************************************************)
(* parse of both handlers: the request body as the decoded TLV map.        *)
(***************************************************************************)
\* StepNumber::Unknown and the request codes of Pair-Setup
StepUnknown == 0
StartReq == 1
ExchangeReq == 5
\* StepNumber::Unknown and the request codes of Pair-Verify
PVStepUnknown == 0
PVStartReq == 1
FinishReq == 3

\* what parse returns: Ok(Step), Err(ErrorContainer), or a panic
ParseOk(step) == [step |-> step, err |-> NoReply]
ParseErr(state) == [step |-> "None", err |-> ErrorContainer(state, "Unknown")]
ParsePanic == [step |-> "None", err |-> Panicked]
NotParsed == [step |-> "None", err |-> NoReply]

\* decoded.get(State): absent, or the bytes of the field (possibly none)
StateFields == {None, Some(<<>>)} \cup {Some(<<x>>) : x \in 0 .. MaxStateCode}
\* the other fields parse reads
BodyTypes == {"PublicKey", "Proof", "EncryptedData"}
Bodies == [state : StateFields, fields : SUBSET BodyTypes]
NoBody == [state |-> None, fields |-> {}]

\* PairSetup::parse
setup_parse(b) ==
    IF ~IsSome(b.state) THEN ParseErr(StepUnknown)
    ELSE LET method == Unwrap(b.state)
         IN  IF Len(method) = 0 THEN ParsePanic
             ELSE IF method[1] = StartReq THEN ParseOk("Start")
             ELSE IF method[1] = VerifyReq
             THEN IF "PublicKey" \notin b.fields THEN ParseErr(VerifyRes)
                  ELSE IF "Proof" \notin b.fields THEN ParseErr(VerifyRes)
                  ELSE ParseOk("Verify")
             ELSE IF method[1] = ExchangeReq
             THEN IF "EncryptedData" \notin b.fields THEN ParseErr(ExchangeRes)
                  ELSE ParseOk("Exchange")
             ELSE ParseErr(StepUnknown)

\* PairVerify::parse
verify_parse(b) ==
    IF ~IsSome(b.state) THEN ParseErr(PVStepUnknown)
    ELSE LET method == Unwrap(b.state)
         IN  IF Len(method) = 0 THEN ParsePanic
             ELSE IF method[1] = PVStartReq
             THEN IF "PublicKey" \notin b.fields THEN ParseErr(PVStartRes)
                  ELSE ParseOk("Start")
             ELSE IF method[1] = FinishReq
             THEN IF "EncryptedData" \notin b.fields THEN ParseErr(FinishRes)
                  ELSE ParseOk("Finish")
             ELSE ParseErr(PVStepUnknown)

(***************************************************************************)
(* Pair-Setup handlers that share one pairing store.                       *)
(***************************************************************************)
\* the concurrently active handlers
RaceHandlers == 1 .. NumHandlers
\* a handler outside handle_exchange: its retry counter, its last reply and
\* the Exchange steps it has been given
IdleRacer == [pc |-> "idle", id |-> 0, tries |-> 0, reply |-> NoReply, steps |-> 0]

(***************************************************************************)
(* Initial state: both handlers as constructed; the connection's requests  *)
(* go to one handler.  A Pair-Verify connection finds the store as earlier *)
(* Pair-Setup runs left it.                                                *)
(***************************************************************************)
\* the fields of both handlers after construction, nothing parsed, no
\* handler inside handle_exchange
Constructed ==
    /\ session = None
    /\ unsuccessful_tries = 0
    /\ events = 0
    /\ result = NoResult
    /\ reply = NoReply
    /\ aborted = FALSE
    /\ happy = 0
    /\ verified = FALSE
    /\ last_step = "None"
    /\ pv_session = None
    /\ session_sender = Some("sender")
    /\ receiver_alive = TRUE
    /\ handoffs = <<>>
    /\ pv_result = NoResult
    /\ pv_reply = NoReply
    /\ pv_aborted = FALSE
    /\ pv_last = [step |-> "None", class |-> "none", id |-> 0, fault |-> StoreOk, b |-> 0]
    /\ body = NoBody
    /\ parsed = NotParsed
    /\ racers = [h \in RaceHandlers |-> IdleRacer]

Init ==
    /\ handler \in {"pair-setup", "pair-verify"}
    /\ pairings \in IF handler = "pair-setup" THEN {{}} ELSE SUBSET StoredPairings
    /\ max_peers \in IF handler = "pair-setup" THEN {None, Some(PeerLimit)} ELSE {None}
    /\ Constructed

(***************************************************************************)
(* Pair-Setup actions: one call of PairSetup::handle each.                 *)
(***************************************************************************)
\* handle(Step::Start)
SetupStart(r, fault) ==
    /\ handler = "pair-setup"
    /\ ~aborted
    /\ LET out == setup_handle_start(session, unsuccessful_tries, fault, r)
       IN  \E arm \in handle_arm(out.result, unsuccessful_tries, start_error_state) :
              /\ session' = out.session
              /\ result' = out.result
              /\ unsuccessful_tries' = arm.tries
              /\ reply' = arm.reply
              /\ aborted' = arm.aborted
              /\ verified' = IF out.result.ok THEN FALSE ELSE verified
    /\ last_step' = "Start"
    /\ happy' = IF happy = 0 /\ fault = StoreOk THEN 1 ELSE -1
    /\ UNCHANGED <<pairings, max_peers, events, verify_vars, handler, parse_vars, racers>>

\* handle(Step::Verify {a_pub, a_proof})
SetupVerify(req) ==
    /\ handler = "pair-setup"
    /\ ~aborted
    /\ LET out == setup_handle_verify(session, req.a_pub, req.a_proof)
       IN  \E arm \in handle_arm(out.result, unsuccessful_tries, verify_error_state) :
              /\ session' = out.session
              /\ result' = out.result
              /\ unsuccessful_tries' = arm.tries
              /\ reply' = arm.reply
              /\ aborted' = arm.aborted
              /\ verified' = (verified \/ out.result.ok)
    /\ last_step' = "Verify"
    /\ happy' = IF happy = 1 /\ req.class = "conforming" THEN 2 ELSE -1
    /\ UNCHANGED <<pairings, max_peers, events, verify_vars, handler, parse_vars, racers>>

\* handle(Step::Exchange {data})
SetupExchange(req) ==
    /\ handler = "pair-setup"
    /\ ~aborted
    /\ LET out == setup_handle_exchange(session, max_peers, pairings, events,
                                        req.data, req.fault)
       IN  \E arm \in handle_arm(out.result, unsuccessful_tries, exchange_error_state) :
              /\ out.events <= MaxEvents
              /\ pairings' = out.pairings
              /\ events' = out.events
              /\ result' = out.result
              /\ unsuccessful_tries' = arm.tries
              /\ reply' = arm.reply
              /\ aborted' = arm.aborted
    /\ last_step' = "Exchange"
    /\ happy' = IF /\ happy = 2
                   /\ req.class = "conforming"
                   /\ req.fault = StoreOk
                   /\ ~LimitReached
                THEN 3 ELSE -1
    /\ UNCHANGED <<session, max_peers, verified, verify_vars, handler, parse_vars, racers>>

(***************************************************************************)
(* Pair-Verify actions: one call of PairVerify::handle each, and the       *)
(* transport dropping the receiving end of the hand-off channel.           *)
(***************************************************************************)
\* handle(Step::Start {a_pub})
VerifyStart(b, fault) ==
    /\ handler = "pair-verify"
    /\ ~pv_aborted
    /\ LET out == verify_handle_start(pv_session, ControllerA, b, fault)
           arm == verify_handle_arm(out.result, pv_start_error_state)
       IN  /\ pv_session' = out.session
           /\ pv_result' = out.result
           /\ pv_reply' = arm.reply
           /\ pv_aborted' = arm.aborted
    /\ pv_last' = [step |-> "Start", class |-> "conforming", id |-> 0, fault |-> fault,
                   b |-> IF verify_handle_start(pv_session, ControllerA, b, fault).result.ok
                         THEN b ELSE pv_last.b]
    /\ UNCHANGED <<session_sender, receiver_alive, handoffs, setup_vars, pairings, handler, parse_vars, racers>>

\* handle(Step::Finish {data})
VerifyFinish(req) ==
    /\ handler = "pair-verify"
    /\ ~pv_aborted
    /\ LET out == verify_handle_finish(pv_session, session_sender, receiver_alive,
                                       handoffs, pairings, req.data, req.fault)
           arm == verify_handle_arm(out.result, finish_error_state)
       IN  /\ session_sender' = out.sender
           /\ handoffs' = out.handoffs
           /\ pv_result' = out.result
           /\ pv_reply' = arm.reply
           /\ pv_aborted' = arm.aborted
    /\ pv_last' = [step |-> "Finish", class |-> req.class, id |-> req.id,
                   fault |-> req.fault, b |-> pv_last.b]
    /\ UNCHANGED <<pv_session, receiver_alive, setup_vars, pairings, handler, parse_vars, racers>>

\* the transport drops the oneshot receiver (the connection goes away)
DropReceiver ==
    /\ handler = "pair-verify"
    /\ receiver_alive
    /\ receiver_alive' = FALSE
    /\ UNCHANGED <<pv_session, session_sender, handoffs, pv_result, pv_reply, pv_aborted,
                   pv_last, setup_vars, pairings, handler, parse_vars, racers>>

\* the steps of a connection to the Pair-Setup handler
NextSetup ==
    \/ \E r \in 1 .. NumRand, fault \in {StoreOk, "load_device"} : SetupStart(r, fault)
    \/ \E req \in VerifyRequests(session) : SetupVerify(req)
    \/ \E req \in ExchangeRequests(session) : SetupExchange(req)

\* the steps of a connection to the Pair-Verify handler
NextVerify ==
    \/ \E b \in 1 .. NumScalars, fault \in {StoreOk, "load_device"} : VerifyStart(b, fault)
    \/ \E req \in FinishRequests(pv_session) : VerifyFinish(req)
    \/ DropReceiver

Next == NextSetup \/ NextVerify

\* a connection to either handler
Spec == Init /\ [][Next]_vars

\* a connection to the Pair-Setup handler
InitSetup == Init /\ handler = "pair-setup"
SpecSetup == InitSetup /\ [][NextSetup]_vars

\* a connection to the Pair-Setup handler of an accessory whose configuration
\* sets max_peers
InitSetupLimit == InitSetup /\ IsSome(max_peers)
SpecSetupLimit == InitSetupLimit /\ [][NextSetup]_vars

\* a connection to the Pair-Verify handler
InitVerify == Init /\ handler = "pair-verify"
SpecVerify == InitVerify /\ [][NextVerify]_vars


(***************************************************************************)
(* parse: the transport gives a request body to the handler's parser.      *)
(***************************************************************************)
\* PairSetup::parse(body)
SetupParse(b) ==
    /\ handler = "pair-setup"
    /\ body' = b
    /\ parsed' = setup_parse(b)
    /\ UNCHANGED <<setup_vars, verify_vars, pairings, handler, racers>>

\* PairVerify::parse(body)
VerifyParse(b) ==
    /\ handler = "pair-verify"
    /\ body' = b
    /\ parsed' = verify_parse(b)
    /\ UNCHANGED <<setup_vars, verify_vars, pairings, handler, racers>>

NextParse ==
    \/ \E b \in Bodies : SetupParse(b)
    \/ \E b \in Bodies : VerifyParse(b)

\* request bodies given to the parser of either handler
SpecParse == Init /\ [][NextParse]_vars


(***************************************************************************)
(* Exchange steps of handlers that share the pairing store.  Each handler  *)
(* holds a session with a shared secret and is given the conforming M5 of  *)
(* controller c; the checks before the peer limit read no shared state.    *)
(* The store is locked once to count and once more to save.                *)
(***************************************************************************)
\* handle_exchange of handler h up to `count_pairings()? + 1 > max_peers`
RaceCount(h, c) ==
    /\ handler = "race"
    /\ racers[h].pc = "idle"
    /\ racers[h].steps < MaxRaceExchanges
    /\ IF IsSome(max_peers) /\ peers_exceeded(Cardinality(pairings), Unwrap(max_peers))
       THEN \E arm \in handle_arm(Err("MaxPeers"), racers[h].tries, exchange_error_state) :
               racers' = [racers EXCEPT ![h] = [pc |-> "idle", id |-> 0,
                                                tries |-> arm.tries, reply |-> arm.reply,
                                                steps |-> @.steps + 1]]
       ELSE racers' = [racers EXCEPT ![h].pc = "counted", ![h].id = c]
    /\ UNCHANGED <<setup_vars, verify_vars, pairings, handler, parse_vars>>

\* handle_exchange of handler h from `pairing.save_to(database)?` to its end
RaceSave(h) ==
    /\ handler = "race"
    /\ racers[h].pc = "counted"
    /\ pairings' = save_to(Pairing(racers[h].id, "Admin", KeyOf(racers[h].id)), pairings)
    /\ events' = events + 1
    /\ \E arm \in handle_arm(Ok(ExchangeRes), racers[h].tries, exchange_error_state) :
          racers' = [racers EXCEPT ![h] = [pc |-> "idle", id |-> 0,
                                           tries |-> arm.tries, reply |-> arm.reply,
                                           steps |-> @.steps + 1]]
    /\ UNCHANGED <<session, unsuccessful_tries, max_peers, result, reply, aborted, happy,
                   verified, last_step, verify_vars, handler, parse_vars>>

NextRace ==
    \/ \E h \in RaceHandlers, c \in Controllers : RaceCount(h, c)
    \/ \E h \in RaceHandlers : RaceSave(h)

\* handlers as constructed, a peer limit configured, a store within the limit
InitRace ==
    /\ handler = "race"
    /\ max_peers = Some(PeerLimit)
    /\ pairings \in {st \in SUBSET StoredPairings : Cardinality(st) <= PeerLimit}
    /\ Constructed

\* concurrently active Pair-Setup handlers on one pairing store
SpecRace == InitRace /\ [][NextRace]_vars


(***************************************************************************)
(* Claims.                                                                 *)
(***************************************************************************)

\* C1: on a fresh handler with a loadable identity and the peer limit not
\* reached, Start, then Verify with the proof of a controller holding the
\* PIN, then Exchange with that controller's encrypted and signed M5 are
\* answered with state codes 2, 4 and 6, and after the Exchange the store
\* holds the Pairing of the controller's identifier with Admin permission
\* and the controller's public key.
C1_HappyPath ==
    [][/\ happy' = 1 => reply' = OkReply(2)
       /\ happy' = 2 => reply' = OkReply(4)
       /\ (happy = 2 /\ last_step' = "Exchange" /\ ~LimitReached)
          => \A c \in Controllers :
                SetupExchange(ConformingExchange(session, c, StoreOk))
                => /\ happy' = 3
                   /\ reply' = OkReply(6)
                   /\ \E p \in pairings' : /\ p.id = c
                                           /\ p.permissions = "Admin"
                                           /\ p.public_key = KeyOf(c)
                   /\ \A p \in pairings' : p.id = c => p.public_key = KeyOf(c)]_vars

\* C1 witness: the three conforming steps have been answered and a pairing is stored
C1_Witness ==
    /\ happy = 3
    /\ reply = OkReply(6)
    /\ \E c \in Controllers : Pairing(c, "Admin", KeyOf(c)) \in pairings

\* C2 (as claimed): a Verify step whose proof does not match fails with
\* Authentication and leaves the session as it was: salt, verifier, b, b_pub
\* and the absent shared secret; only the retry counter changes.
C2_FailedVerifyLeavesSession ==
    [][(last_step' = "Verify" /\ IsSome(session))
       => \A req \in MismatchedVerifyRequests(session) :
             SetupVerify(req)
             => /\ result'.error = "Authentication"
                /\ session' = session
                /\ pairings' = pairings
                /\ events' = events]_vars

\* C3 (as claimed): an Exchange step issued when no Verify has succeeded since
\* the last successful Start fails with Unknown tagged 6 and leaves the
\* pairing store unchanged.
C3_ExchangeBeforeVerify ==
    [][(last_step' = "Exchange" /\ ~verified)
       => /\ result'.error = "Unknown"
          /\ reply'.kind = "error" => reply' = ErrorContainer(6, "Unknown")
          /\ pairings' = pairings]_vars

\* an Exchange request that succeeds when no peer limit is configured, sent
\* while the store answers every call
OtherwiseValid(req) ==
    /\ req.fault = StoreOk
    /\ setup_handle_exchange(session, None, pairings, events, req.data, req.fault).result.ok

\* C4: with max_peers = N and N pairings stored, an otherwise valid Exchange
\* is refused by handle_exchange with MaxPeers, the store keeps its N records
\* and no event is emitted; with fewer than N pairings it is not refused
\* with MaxPeers.
C4_MaxPeers ==
    [][(last_step' = "Exchange" /\ IsSome(max_peers))
       => \A c \in Controllers :
             LET req == ConformingExchange(session, c, StoreOk)
             IN  (OtherwiseValid(req) /\ SetupExchange(req))
                 => /\ Cardinality(pairings) = Unwrap(max_peers)
                       => /\ result' = Err("MaxPeers")
                          /\ reply'.kind = "error" => reply' = ErrorContainer(6, "MaxPeers")
                          /\ pairings' = pairings
                          /\ Cardinality(pairings') = Unwrap(max_peers)
                          /\ events' = events
                    /\ Cardinality(pairings) < Unwrap(max_peers)
                       => result'.error # "MaxPeers"]_vars

\* C4 witness: the store is full and the last Exchange was refused with MaxPeers
C4_Witness ==
    /\ IsSome(max_peers)
    /\ Cardinality(pairings) = Unwrap(max_peers)
    /\ reply = ErrorContainer(6, "MaxPeers")
    /\ events = Unwrap(max_peers)


\* a Finish request that passes decryption, pairing lookup and signature
\* verification in the current state
PassesChecks(req) ==
    verify_handle_finish(pv_session, Some("sender"), TRUE, <<>>, pairings,
                         req.data, req.fault).result.ok

\* C5: the transport session is handed off at most once; once a Finish has
\* delivered it, every later Finish that passes decryption, pairing lookup
\* and signature verification fails with Unknown tagged 4 and delivers nothing.
C5_HandOffOnce ==
    [][/\ Len(handoffs') <= 1
       /\ (pv_last'.step = "Finish" /\ Len(handoffs) >= 1)
          => \A req \in FinishRequests(pv_session) :
                (PassesChecks(req) /\ VerifyFinish(req))
                => /\ pv_reply' = ErrorContainer(4, "Unknown")
                   /\ handoffs' = handoffs]_vars

\* C5 witness: a conforming Finish of a paired controller was refused with
\* Unknown after the hand-off had been delivered
C5_Witness ==
    /\ Len(handoffs) = 1
    /\ session_sender = None
    /\ pv_last.step = "Finish"
    /\ pv_last.class = "conforming"
    /\ pv_last.fault = StoreOk
    /\ pv_reply = ErrorContainer(4, "Unknown")
    /\ \E p \in pairings : p.id = pv_last.id

\* C6: a Finish whose payload decrypts under the session key but whose
\* signature was made by another key than the one stored for the claimed
\* identifier fails with Authentication tagged 4, delivers nothing and leaves
\* the channel and the session as they were, so that a correctly signed
\* Finish of that controller still succeeds afterwards.
C6_OtherKeySignature ==
    [][(pv_last'.step = "Finish" /\ IsSome(pv_session))
        => \A c \in Controllers :
              ((\E p \in pairings : p.id = c) /\ VerifyFinish(OtherKeyFinish(pv_session, c)))
              => /\ pv_reply' = ErrorContainer(4, "Authentication")
                 /\ handoffs' = handoffs
                 /\ session_sender' = session_sender
                 /\ pv_session' = pv_session
                 /\ IsSome(session_sender)
                    => verify_handle_finish(pv_session', session_sender', receiver_alive',
                                            handoffs', pairings',
                                            ConformingFinish(pv_session', c, StoreOk).data,
                                            StoreOk).result = Ok(4)]_vars

\* C6 witness: a Finish naming a paired controller and signed by another key
\* was refused while the hand-off channel was still unused
C6_Witness ==
    /\ pv_last.step = "Finish"
    /\ pv_last.class = "other_key"
    /\ \E p \in pairings : p.id = pv_last.id
    /\ IsSome(pv_session)
    /\ IsSome(session_sender)
    /\ pv_reply = ErrorContainer(4, "Authentication")


\* the session holds a shared secret, so that handle_exchange decrypts
HasSharedSecret == IsSome(session) /\ IsSome(Unwrap(session).shared_secret)

\* C7 (as claimed): an Exchange whose authentication tag does not verify
\* fails with a decryption error reply tagged 6, persists no pairing, emits
\* no event and increments the retry counter by one.
C7_BadTag ==
    [][(last_step' = "Exchange" /\ HasSharedSecret)
       => (SetupExchange(BadTagExchange(session))
           => /\ reply' = ErrorContainer(6, "Decryption")
              /\ pairings' = pairings
              /\ events' = events
              /\ unsuccessful_tries' = unsuccessful_tries + 1)]_vars

\* C7 holds of every step taken with a retry counter below 255
C7_BadTagBelow255 ==
    [][(last_step' = "Exchange" /\ HasSharedSecret /\ unsuccessful_tries < 255)
       => (SetupExchange(BadTagExchange(session))
           => /\ reply' = ErrorContainer(6, "Decryption")
              /\ pairings' = pairings
              /\ events' = events
              /\ unsuccessful_tries' = unsuccessful_tries + 1)]_vars

\* C8 (as claimed): Start is refused with MaxTries tagged 2 exactly when the
\* retry counter exceeds 99; the refused Start increments the counter and
\* creates no session; with a counter of 99 or less and a loadable identity
\* Start succeeds and sets the counter to 0.
C8_MaxTries ==
    [][last_step' = "Start"
       => \A r \in 1 .. NumRand, fault \in {StoreOk, "load_device"} :
             SetupStart(r, fault)
             => /\ (unsuccessful_tries > 99) <=> (reply' = ErrorContainer(2, "MaxTries"))
                /\ unsuccessful_tries > 99
                   => /\ unsuccessful_tries' = unsuccessful_tries + 1
                      /\ session' = session
                /\ (unsuccessful_tries <= 99 /\ fault = StoreOk)
                   => /\ reply' = OkReply(2)
                      /\ unsuccessful_tries' = 0
                      /\ IsSome(session')]_vars

\* C8 holds of every Start taken with a retry counter below 255
C8_MaxTriesBelow255 ==
    [][(last_step' = "Start" /\ unsuccessful_tries < 255)
       => \A r \in 1 .. NumRand, fault \in {StoreOk, "load_device"} :
             SetupStart(r, fault)
             => /\ (unsuccessful_tries > 99) <=> (reply' = ErrorContainer(2, "MaxTries"))
                /\ unsuccessful_tries > 99
                   => /\ unsuccessful_tries' = unsuccessful_tries + 1
                      /\ session' = session
                /\ (unsuccessful_tries <= 99 /\ fault = StoreOk)
                   => /\ reply' = OkReply(2)
                      /\ unsuccessful_tries' = 0
                      /\ IsSome(session')]_vars

\* C9 (as claimed): the retry counter never decreases in a step that does not
\* succeed; it returns to zero only through a successful step.
C9_CounterNeverDecreases ==
    [][(last_step' # "None" /\ reply'.kind # "ok")
       => unsuccessful_tries' >= unsuccessful_tries]_vars

\* C9 (its consequence, as claimed): a Start taken after a Start was refused
\* with MaxTries and no step has succeeded since, is refused with MaxTries too.
C9_RefusedStaysRefused ==
    [][(result = Err("MaxTries") /\ last_step' = "Start") => result' = Err("MaxTries")]_vars

\* C10: an error reply of handle carries the response state code of the step
\* that failed: 2, 4, 6 for Start, Verify, Exchange of Pair-Setup and 2, 4 for
\* Start, Finish of Pair-Verify.
C10_ErrorStateCodes ==
    /\ reply.kind = "error"
       => reply.state = CASE last_step = "Start" -> 2
                          [] last_step = "Verify" -> 4
                          [] last_step = "Exchange" -> 6
                          [] OTHER -> -1
    /\ pv_reply.kind = "error"
       => pv_reply.state = CASE pv_last.step = "Start" -> 2
                             [] pv_last.step = "Finish" -> 4
                             [] OTHER -> -1

\* C10 witness: a failed Verify step has been answered with an error reply
C10_Witness ==
    /\ last_step = "Verify"
    /\ reply.kind = "error"
    /\ reply.error = "Authentication"

\* the request and response state codes of the handshake being parsed
RequestCodes == IF handler = "pair-setup" THEN {StartReq, VerifyReq, ExchangeReq}
                ELSE {PVStartReq, FinishReq}
ResponseCodes == IF handler = "pair-setup" THEN {StartRes, VerifyRes, ExchangeRes}
                 ELSE {PVStartRes, FinishRes}

\* C11 (as claimed): every error parse returns, for a missing required field
\* and for an unrecognized or absent state code, is Unknown tagged with one of
\* the response state codes of the handshake, never a request code, never 0.
C11_ParseErrorTags ==
    parsed.err.kind = "error"
    => /\ parsed.err.error = "Unknown"
       /\ parsed.err.state \in ResponseCodes
       /\ parsed.err.state \notin RequestCodes
       /\ parsed.err.state # 0

\* C11 holds of the bodies that carry a request code of the handshake: a
\* missing required field is Unknown tagged with that step's response code
C11_MissingFieldTags ==
    (IsSome(body.state) /\ Len(Unwrap(body.state)) = 1
        /\ Unwrap(body.state)[1] \in RequestCodes)
    => /\ parsed.err.kind = "error"
          => /\ parsed.err = ErrorContainer(Unwrap(body.state)[1] + 1, "Unknown")
             /\ parsed.err.state \in ResponseCodes
       /\ parsed.err.kind # "panic"

\* what C12 requires of a Verify or Exchange step of a Pair-Setup handler
\* that has never completed a Start
SkippedStartRefused ==
    /\ reply' = ErrorContainer(IF last_step' = "Verify" THEN 4 ELSE 6, "Unknown")
    /\ session' = None
    /\ pairings' = pairings
    /\ events' = events
    /\ ~aborted'

\* C12 (as claimed): on a handler that has never completed a Start, a
\* Pair-Setup Verify or Exchange and a Pair-Verify Finish fail with Unknown
\* tagged 4, 6 and 4, create no session, leave the pairing store and the
\* hand-off channel alone and do not abort the handler.
C12_NoSkipStart ==
    [][/\ (last_step' \in {"Verify", "Exchange"} /\ session = None)
          => SkippedStartRefused
       /\ (pv_last'.step = "Finish" /\ pv_session = None /\ receiver_alive' = receiver_alive)
          => /\ pv_reply' = ErrorContainer(4, "Unknown")
             /\ pv_session' = None
             /\ pairings' = pairings
             /\ session_sender' = session_sender
             /\ handoffs' = handoffs
             /\ ~pv_aborted']_vars

\* C12 holds of every Pair-Setup step taken with a retry counter below 255
C12_NoSkipStartBelow255 ==
    [][(last_step' \in {"Verify", "Exchange"} /\ session = None /\ unsuccessful_tries < 255)
          => SkippedStartRefused]_vars

\* C12 holds of Pair-Verify, which has no retry counter
C12_NoSkipStartVerify ==
    [][(pv_last'.step = "Finish" /\ pv_session = None /\ receiver_alive' = receiver_alive)
          => /\ pv_reply' = ErrorContainer(4, "Unknown")
             /\ pv_session' = None
             /\ pairings' = pairings
             /\ session_sender' = session_sender
             /\ handoffs' = handoffs
             /\ ~pv_aborted']_vars

\* C13 (as claimed): the session slot is empty until the first successful
\* Start and is empty again after a successful Pair-Setup Exchange and after
\* a successful Pair-Verify Finish.
C13_SessionConsumed ==
    /\ (last_step = "None" /\ pv_last.step = "None") => (session = None /\ pv_session = None)
    /\ (last_step = "Exchange" /\ reply.kind = "ok") => session = None
    /\ (pv_last.step = "Finish" /\ pv_reply.kind = "ok") => pv_session = None

\* C13 holds of the handlers before their first successful Start
C13_EmptyBeforeStart ==
    [][/\ (session = None /\ IsSome(session')) => reply' = OkReply(2)
       /\ (pv_session = None /\ IsSome(pv_session')) => pv_reply' = OkReply(2)]_vars

\* C14: each Pair-Setup step changes the number of device-paired events by
\* one when it is an Exchange answered Ok with state 6 and by nothing
\* otherwise, so the events emitted are as many as the successful Exchanges;
\* when an event is emitted the pairing of the request is in the store.
C14_EventsCountExchanges ==
    [][/\ events' = events + (IF last_step' = "Exchange" /\ reply' = OkReply(6) THEN 1 ELSE 0)
       /\ reply'.kind # "ok" => events' = events
       /\ events' # events
          => \A c \in Controllers :
                SetupExchange(ConformingExchange(session, c, StoreOk))
                => Pairing(c, "Admin", KeyOf(c)) \in pairings']_vars

\* C14 witness: one Exchange has been answered Ok and one event was emitted
C14_Witness ==
    /\ last_step = "Exchange"
    /\ reply = OkReply(6)
    /\ events = 1
    /\ pairings # {}

\* the step is a call of PairVerify::handle with Step::Finish
IsFinishStep == pv_last'.step = "Finish" /\ receiver_alive' = receiver_alive

\* C15 (as claimed): a Finish step is answered Ok with state 4 if and only if
\* that step delivered the transport session to the connection layer, also
\* when the transport has dropped the receiving end of the channel.
C15_SuccessIffDelivered ==
    [][IsFinishStep
       => ((pv_reply' = OkReply(4)) <=> (Len(handoffs') = Len(handoffs) + 1))]_vars

\* C15 holds in one direction, and in both while the receiving end exists: a
\* Finish that is not answered Ok delivers nothing
C15_FailedDeliversNothing ==
    [][IsFinishStep
       => /\ pv_reply' # OkReply(4) => handoffs' = handoffs
          /\ receiver_alive
             => ((pv_reply' = OkReply(4)) <=> (Len(handoffs') = Len(handoffs) + 1))]_vars

\* C16 (as claimed): with max_peers = N, however the Exchange steps of the
\* handlers sharing the store interleave, the store never holds more than N
\* pairings.
C16_StoreWithinLimit ==
    IsSome(max_peers) => Cardinality(pairings) <= Unwrap(max_peers)

\* C17 (as claimed): while the retry counter exceeds 99 no step of the
\* handler, Start, Verify or Exchange, succeeds, so a Verify or Exchange
\* cannot bring the counter back to zero.
C17_RefusedAboveCeiling ==
    [][(last_step' # "None" /\ unsuccessful_tries > 99)
       => /\ reply'.kind # "ok"
          /\ (last_step' \in {"Verify", "Exchange"} /\ ~aborted') => unsuccessful_tries' # 0]_vars

\* C17 holds of Start: while the counter exceeds 99 no Start succeeds
C17_StartRefusedAboveCeiling ==
    [][(last_step' = "Start" /\ unsuccessful_tries > 99) => reply'.kind # "ok"]_vars

\* C18 (as claimed): after a Start step has been handled, whether it
\* succeeded or was rejected, the handler holds nothing of an earlier
\* session: a rejected Start leaves no session and a successful one leaves
\* the session that Start built, without a shared secret.
C18_StartDiscardsSession ==
    [][last_step' = "Start"
       => \A r \in 1 .. NumRand, fault \in {StoreOk, "load_device"} :
             SetupStart(r, fault)
             => /\ result'.ok => session' = Some(new_session(r))
                /\ ~result'.ok => session' = None]_vars

\* C18 holds of the Start steps that succeed: the session is the one that
\* Start built and it has no shared secret
C18_SuccessfulStartReplaces ==
    [][last_step' = "Start"
       => \A r \in 1 .. NumRand, fault \in {StoreOk, "load_device"} :
             (SetupStart(r, fault) /\ result'.ok)
             => /\ session' = Some(new_session(r))
                /\ Unwrap(session').shared_secret = None
                /\ ~verified']_vars

\* C19: the transport session a Finish hands off holds the identifier of the
\* controller whose stored pairing verified the signature and the raw ECDH
\* secret of the last Start that stored a session: not the derived session
\* key and not the secret of a Start made before it.
C19_HandOffContents ==
    [][(IsFinishStep /\ Len(handoffs') = Len(handoffs) + 1)
       => LET given == handoffs'[Len(handoffs')]
              secret == curve25519(pv_last.b, ControllerA)
          IN  /\ given.controller_id = pv_last'.id
              /\ \E p \in pairings :
                    /\ p.id = given.controller_id
                    /\ VerifyFinish(ConformingFinish(pv_session, p.id, StoreOk))
                    /\ finish_signature_ok(Unwrap(pv_session), p,
                                           ConformingFinish(pv_session, p.id, StoreOk).data.plain)
              /\ given.shared_secret = secret
              /\ given.shared_secret # verify_session_key(secret)
              /\ \A b \in 1 .. NumScalars :
                    b # pv_last.b => given.shared_secret # curve25519(b, ControllerA)]_vars

\* C19 witness: a hand-off was delivered with the secret of the second scalar
\* after a Start, so a Start with another scalar can have preceded it
C19_Witness ==
    /\ Len(handoffs) = 1
    /\ pv_last.step = "Finish"
    /\ pv_reply = OkReply(4)
    /\ pv_last.b = NumScalars
    /\ handoffs[1] = [controller_id |-> pv_last.id,
                      shared_secret |-> curve25519(NumScalars, ControllerA)]

\* C20: a Finish that decrypts and names an identifier with no stored
\* pairing fails with the store's error tagged 4, never with Authentication,
\* whether it is signed by the key of that identifier or by another key; it
\* delivers nothing and leaves the hand-off channel unconsumed.
C20_LookupBeforeSignature ==
    [][(IsFinishStep /\ IsSome(pv_session))
       => \A c \in Controllers :
             \A req \in {ConformingFinish(pv_session, c, StoreOk), OtherKeyFinish(pv_session, c)} :
                ((\A p \in pairings : p.id # c) /\ VerifyFinish(req))
                => /\ pv_reply' = ErrorContainer(4, FromStoreError)
                   /\ pv_result'.error # "Authentication"
                   /\ handoffs' = handoffs
                   /\ session_sender' = session_sender]_vars

\* C20 witness: a Finish signed by another key and naming an identifier that
\* has no pairing was answered with the store's error while pairings of other
\* identifiers exist
C20_Witness ==
    /\ pv_last.step = "Finish"
    /\ pv_last.class = "other_key"
    /\ IsSome(pv_session)
    /\ \A p \in pairings : p.id # pv_last.id
    /\ pairings # {}
    /\ pv_reply = ErrorContainer(4, FromStoreError)

\* C21 (as claimed): for every request parse and handle return a result or
\* an error reply and never abort the handler: not for an Exchange or Finish
\* payload shorter than the 16-byte tag, not for a state field that is
\* present but empty.
C21_NeverAborts ==
    /\ ~aborted
    /\ ~pv_aborted
    /\ reply.kind # "panic"
    /\ pv_reply.kind # "panic"
    /\ parsed.err.kind # "panic"

\* C21 (as claimed), of parse: no body makes parse panic
C21_ParseNeverAborts == parsed.err.kind # "panic"

\* C21 holds of every other request: handle aborts only in a step function
\* that slices a payload shorter than the tag, or in the increment of a retry
\* counter of 255
C21_AbortsOnlyThere ==
    [][/\ (aborted' /\ ~aborted)
          => \/ (last_step' = "Exchange" /\ result' = Panic /\ HasSharedSecret)
             \/ (unsuccessful_tries = 255 /\ ~result'.ok)
       /\ (pv_aborted' /\ ~pv_aborted)
          => (pv_last'.step = "Finish" /\ pv_last'.class = "short" /\ IsSome(pv_session))]_vars

\* C21 holds of parse for every body whose state field is absent or not empty
C21_ParseAbortsOnlyThere ==
    parsed.err.kind = "panic" => body.state = Some(<<>>)

\* C22 (as claimed): an Exchange step that returns an error reply leaves the
\* pairing store unchanged, whichever sub-step failed; a pairing is persisted
\* only by an Exchange step that returns state code 6.
C22_FailedExchangeLeavesStore ==
    [][/\ (last_step' = "Exchange" /\ reply'.kind = "error") => pairings' = pairings
       /\ pairings' # pairings => (last_step' = "Exchange" /\ reply' = OkReply(6))]_vars

\* C22 holds of every Exchange that fails before or at the save: decryption,
\* field extraction, signature check, identifier parsing, peer limit, saving
C22_FailureBeforeSaveLeavesStore ==
    [][last_step' = "Exchange"
       => \A req \in ExchangeRequests(session) :
             (req.fault # "load_device" /\ SetupExchange(req) /\ ~result'.ok)
             => pairings' = pairings]_vars

====
